---- MODULE Spec2Model ----
(***************************************************************************)
(* Session/profile store of the injury-tracking app (lib/supabase.ts,      *)
(* AuthProvider) together with the part of the hosted backend it talks to: *)
(* the auth service's current session and its session-change events, the   *)
(* auth accounts, the employees (profile) table and the departments table. *)
(*                                                                         *)
(* Every async store operation is cut at its awaits: one action is the     *)
(* arrival of one backend response and the synchronous code that follows   *)
(* it up to the next await (or the return).  The auth client calls the     *)
(* session-change subscriber inside the call that changes the session, so  *)
(* the callback's synchronous part belongs to that action; only the        *)
(* SIGNED_IN branch suspends, at its profile lookup.                       *)
(***************************************************************************)
EXTENDS Integers, Sequences, FiniteSets, TLC

\* ---------------------------------------------------------------- bounds
MaxTok == 1        \* credential bundles the auth service issues after the app started
MaxInFlight == 1   \* user-started operations suspended at an await at the same time

\* ------------------------------------------------------------ value sets
Users == {"u1", "u2"}
EmpNums == {"e1", "e2"}   \* employee_number is UNIQUE: at most one row each
DeptNames == {"Safety"}
DeptInputs == DeptNames \cup {"Unknown"}

NoSession == [uid |-> "none", tok |-> 0]
NoProfile == [id |-> 0, user_id |-> "none", employee_number |-> "none", is_active |-> FALSE]
NoArgs == [uid |-> "none", emp |-> "none", dept |-> "none", valid |-> FALSE]

VARIABLES
  user,         \* useState<UserProfile | null>
  session,      \* useState<Session | null>
  isLoading,    \* useState(true)
  isLoggingIn,  \* useState(false)
  isSigningUp,  \* useState(false)
  authSession,  \* the backend client's current (persisted) session
  authUsers,    \* auth accounts that exist
  employees,    \* rows of the employees table
  tokCount,     \* credential bundles issued since the app started
  handlers,     \* sessions of the SIGNED_IN callbacks awaiting fetchUserProfile
  pc,           \* where each store operation is suspended
  held,         \* the session an operation holds across its await
  args,         \* arguments of the login / signup / completeEmployeeProfile call in flight
  last,         \* the return just made: operation, backend outcome, return value
  firstRun,     \* the store as a first run of initializeAuth left it, once it is run again
  profiles,     \* user ids that have a row in the profiles table
  localSigningUp, \* the login screen's own useState(false) isSigningUp
  authForm,     \* the login screen's formData, authMode, errors and touched
  sent,         \* the last credential request the auth service received
  forgot,       \* the forgot-password screen's email, isLoading and emailSent
  link,         \* a password-reset deep-link handler: the link, status, redirect
  deptLoad      \* complete-profile's department loading: departments, retryCount, timer

vars == <<user, session, isLoading, isLoggingIn, isSigningUp, authSession,
          authUsers, employees, tokCount, handlers, pc, held, args, last, firstRun,
          profiles, localSigningUp, authForm, sent, forgot, link, deptLoad>>

\* State of the screens beside the store.
screens == <<authForm, sent, forgot, link, deptLoad>>

Ops == {"init", "login", "signup", "refresh", "complete", "handleSignup"}

\* The record of a step: a step on which an operation returns (or throws)
\* records the operation, the user id it was about, the backend's answer and
\* the value returned; every other step records nothing.
Step(op, uid, out, ret) ==
  IF ret \in {"pending", "none"}
  THEN [op |-> "none", uid |-> "none", out |-> "none", ret |-> "none"]
  ELSE [op |-> op, uid |-> uid, out |-> out, ret |-> ret]

\* Number of user-started operations suspended at an await.
InFlight == Cardinality({o \in Ops \ {"init"} : pc[o] # "idle"})

\* A screen may start operation op.  A sign-up (the store's signup or the
\* login screen's handleSignup) touches nothing of the store but a flag and
\* the account list, so it runs while nothing else is suspended; the other
\* operations overlap each other up to MaxInFlight.
CanStart(op) ==
  /\ pc[op] = "idle"
  /\ IF op \in {"signup", "handleSignup"}
     THEN InFlight = 0
     ELSE pc["signup"] = "idle" /\ pc["handleSignup"] = "idle" /\ InFlight < MaxInFlight

\* ------------------------------------------------------------- backend
\* Rows a filtered select returns.
RowsOf(userId, activeOnly) ==
  {r \in employees : r.user_id = userId /\ (activeOnly => r.is_active)}

\* .single(): the row when exactly one row matches, an error otherwise.
Single(rows) == IF Cardinality(rows) = 1 THEN CHOOSE r \in rows : TRUE ELSE NoProfile

NewSession(uid) == [uid |-> uid, tok |-> tokCount + 1]

\* ------------------------------------------------------ fetchUserProfile
\* respOk = FALSE: the request failed (error returned or thrown).
fetchUserProfile(userId, respOk) ==
  IF respOk THEN Single(RowsOf(userId, TRUE)) ELSE NoProfile

\* ------------------------------------------------------------------ Init
\* The backend's state when the app starts: the account of u1 exists, with no
\* profile row, an active one or a deactivated one, and the client may or may
\* not hold a persisted session for u1.
InitTables ==
  { {},
    {[id |-> 1, user_id |-> "u1", employee_number |-> "e1", is_active |-> TRUE]},
    {[id |-> 1, user_id |-> "u1", employee_number |-> "e1", is_active |-> FALSE]} }

\* ------------------------------------------------------- text of a field
\* Texts typed into the e-mail field, as sequences of characters: empty,
\* well-formed, with a capital and a trailing blank, and malformed.
EmailInputs ==
  { <<>>,
    <<"a", "@", "b", ".", "c">>,
    <<"A", "@", "b", ".", "c", " ">>,
    <<"a", "b">> }

\* Texts typed into a password field: nothing, or a password that meets the
\* rules of both modes.
PasswordInputs == {"", "Passw0rd!"}

\* String.prototype.toLowerCase
toLowerCase(str) == [i \in 1..Len(str) |-> IF str[i] = "A" THEN "a" ELSE str[i]]

\* String.prototype.trim: the text between the first and the last character
\* that is not white space.
trim(str) ==
  LET solid == {i \in 1..Len(str) : str[i] # " "}
  IN IF solid = {} THEN <<>>
     ELSE SubSeq(str, CHOOSE i \in solid : \A j \in solid : i <= j,
                      CHOOSE i \in solid : \A j \in solid : i >= j)

\* /\S+@\S+\.\S+/.test(value): somewhere in the text, a character that is not
\* white space, "@", one or more such characters, ".", and one more.
emailRegex(value) ==
  \E i, j \in 1..Len(value) :
    /\ 1 < i /\ i + 1 < j /\ j < Len(value)
    /\ value[i] = "@" /\ value[j] = "."
    /\ value[i - 1] # " " /\ value[j + 1] # " "
    /\ \A k \in (i + 1)..(j - 1) : value[k] # " "

\* The login screen's form with every field empty.
EmptyForm(mode) ==
  [email |-> <<>>, password |-> "", confirmPassword |-> "", authMode |-> mode,
   errors |-> [email |-> "", password |-> "", confirmPassword |-> ""],
   touched |-> [email |-> FALSE, password |-> FALSE, confirmPassword |-> FALSE]]

NoRequest == [api |-> "none", input |-> <<>>, email |-> <<>>]

\* The forgot-password screen as mounted; out is the answer to the last
\* resetPasswordForEmail request, alert the last Alert shown.
ForgotInit ==
  [email |-> <<>>, isLoading |-> FALSE, emailSent |-> FALSE, pc |-> "idle",
   out |-> "none", alert |-> "none"]

\* No deep-link handler mounted; a mounted one starts with status 'loading'.
\* type, access_token, refresh_token and error are the parameters of the URL
\* hash (for the two tokens and error: present or not), timer the route of the
\* pending setTimeout, redirect the route router.replace was called with.
NoLink ==
  [handler |-> "none", type |-> "none", access_token |-> FALSE,
   refresh_token |-> FALSE, error |-> FALSE, status |-> "loading",
   pc |-> "idle", timer |-> "none", redirect |-> "none"]

\* complete-profile not mounted.  loads counts the handleLoadDepartments calls
\* in flight by the departments.length their closure holds; attempts counts
\* the calls made since the mount or the last press of Try Again.
DeptInit ==
  [mounted |-> FALSE, departments |-> {}, retryCount |-> 0,
   isLoadingDepartments |-> FALSE, timer |-> FALSE,
   loads |-> [empty |-> 0, full |-> 0], attempts |-> 0]

\* No second run of initializeAuth yet.
NoRun == [taken |-> FALSE, session |-> NoSession, user |-> NoProfile,
          isLoading |-> TRUE, out |-> "none"]

\* The provider as constructed, over one of the given employees tables.
InitWith(tables) ==
  /\ user = NoProfile
  /\ session = NoSession
  /\ isLoading = TRUE
  /\ isLoggingIn = FALSE
  /\ isSigningUp = FALSE
  /\ authUsers = {"u1"}
  /\ employees \in tables
  /\ authSession \in {NoSession, [uid |-> "u1", tok |-> 0]}
  /\ tokCount = 0
  /\ handlers = {}
  /\ pc = [o \in Ops |-> IF o = "init" THEN "getSession" ELSE "idle"]
  /\ held = [o \in Ops |-> NoSession]
  /\ args = [o \in Ops |-> NoArgs]
  /\ last = Step("construct", "none", "none", "none")
  /\ firstRun = NoRun
  /\ profiles = {}
  /\ localSigningUp = FALSE
  /\ authForm = EmptyForm("login")
  /\ sent = NoRequest
  /\ forgot = ForgotInit
  /\ link = NoLink
  /\ deptLoad = DeptInit

Init == InitWith(InitTables)

\* -------------------------------------------------------- initializeAuth
\* What initializeAuth stores once the profile lookup has resolved.
initStore(currentSession, userProfile) ==
  [session |-> currentSession, user |-> userProfile]

\* initializeAuth whose finally block flips the flag: setIsLoading(v => !v).
initFinally_flips(out) == ~isLoading

\* initializeAuth with setIsLoading(false) as the last statement of its try
\* block.
initFinally_endOfTry(out) == IF out = "threw" THEN isLoading ELSE FALSE

\* isLoading after initializeAuth's finally block, which runs on every way
\* out of the try: setIsLoading(false).
initFinally(out) == FALSE

\* loadDepartments (which swallows its errors) and getSession have resolved.
InitGetSession ==
  /\ pc["init"] = "getSession"
  /\ \E out \in {"ok", "threw"} :
       IF out = "ok" /\ authSession.uid # "none"
       THEN /\ pc' = [pc EXCEPT !["init"] = "fetch"]
            /\ held' = [held EXCEPT !["init"] = authSession]
            /\ last' = Step("init", authSession.uid, out, "pending")
            /\ UNCHANGED isLoading
       ELSE /\ pc' = [pc EXCEPT !["init"] = "idle"]
            /\ isLoading' = initFinally(out)
            /\ last' = Step("init", "none", out, "void")
            /\ UNCHANGED held
  /\ UNCHANGED <<firstRun, profiles, localSigningUp>>
  /\ UNCHANGED screens
  /\ UNCHANGED <<user, session, isLoggingIn, isSigningUp, authSession, authUsers,
                 employees, tokCount, handlers, args>>

InitFetch ==
  /\ pc["init"] = "fetch"
  /\ \E respOk \in BOOLEAN :
       LET userProfile == fetchUserProfile(held["init"].uid, respOk)
           st == initStore(held["init"], userProfile)
       IN /\ session' = st.session
          /\ user' = st.user
          /\ last' = Step("init", held["init"].uid, IF respOk THEN "rows" ELSE "lookupError", "void")
  /\ isLoading' = initFinally("ok")
  /\ pc' = [pc EXCEPT !["init"] = "idle"]
  /\ held' = [held EXCEPT !["init"] = NoSession]
  /\ UNCHANGED <<firstRun, profiles, localSigningUp>>
  /\ UNCHANGED screens
  /\ UNCHANGED <<isLoggingIn, isSigningUp, authSession, authUsers, employees,
                 tokCount, handlers, args>>

\* The effect that calls initializeAuth runs once more (a remount) after its
\* first run has returned; the store is as the first run left it.
InitAgain ==
  /\ pc["init"] = "idle"
  /\ ~isLoading
  /\ ~firstRun.taken
  /\ firstRun' = [taken |-> TRUE, session |-> session, user |-> user,
                  isLoading |-> isLoading, out |-> last.out]
  /\ pc' = [pc EXCEPT !["init"] = "getSession"]
  /\ last' = Step("init", "none", "none", "pending")
  /\ UNCHANGED <<profiles, localSigningUp>>
  /\ UNCHANGED screens
  /\ UNCHANGED <<user, session, isLoading, isLoggingIn, isSigningUp, authSession,
                 authUsers, employees, tokCount, handlers, held, args>>

\* ------------------------------------------- onAuthStateChange callback
\* What the SIGNED_IN branch stores once its profile lookup has resolved.
signedInStore(newSession, userProfile) ==
  [session |-> newSession, user |-> userProfile]

\* A SIGNED_OUT branch that only drops the session.
onSignedOut_keepsProfile == [session |-> NoSession, user |-> user]

\* event === 'SIGNED_OUT'
onSignedOut == [session |-> NoSession, user |-> NoProfile]

\* TOKEN_REFRESHED without its setSession(newSession).
onTokenRefreshed_keepsSession(newSession) == [session |-> session, user |-> user]

\* A TOKEN_REFRESHED branch that also drops the profile.
onTokenRefreshed_dropsProfile(newSession) == [session |-> newSession, user |-> NoProfile]

\* event === 'TOKEN_REFRESHED' && newSession
onTokenRefreshed(newSession) == [session |-> newSession, user |-> user]

\* The SIGNED_IN callback of one sign-in: fetchUserProfile has resolved.
OnSignedInFetch ==
  /\ \E h \in handlers, respOk \in BOOLEAN :
       LET userProfile == fetchUserProfile(h.uid, respOk)
           st == signedInStore(h, userProfile)
       IN /\ session' = st.session
          /\ user' = st.user
          /\ handlers' = handlers \ {h}
          /\ last' = Step("signedIn", h.uid,
                          IF respOk THEN "rows" ELSE "lookupError", "void")
  /\ UNCHANGED <<firstRun, profiles, localSigningUp>>
  /\ UNCHANGED screens
  /\ UNCHANGED <<isLoading, isLoggingIn, isSigningUp, authSession, authUsers,
                 employees, tokCount, pc, held, args>>

\* ----------------------------------------------------------------- login
\* Outcomes of signInWithPassword for the call in flight.
SignInOutcomes(a) ==
  IF a.valid /\ a.uid \in authUsers
  THEN {"error", "threw", "nodata"}
         \cup (IF tokCount < MaxTok THEN {"ok"} ELSE {})
  ELSE {"error", "threw"}

\* Entry of login up to the await of signInWithPassword.
LoginCall(uid, valid) ==
  /\ ~isLoading
  /\ CanStart("login")
  /\ isLoggingIn' = TRUE
  /\ pc' = [pc EXCEPT !["login"] = "signIn"]
  /\ args' = [args EXCEPT !["login"] = [uid |-> uid, emp |-> "none", dept |-> "none", valid |-> valid]]
  /\ last' = Step("login", uid, "none", "pending")
  /\ UNCHANGED <<firstRun, profiles, localSigningUp>>
  /\ UNCHANGED screens
  /\ UNCHANGED <<user, session, isLoading, isSigningUp, authSession, authUsers,
                 employees, tokCount, handlers, held>>

\* login with setIsLoggingIn(false) at the end of the try block only: a
\* thrown signInWithPassword leaves the flag.
loginFinally_endOfTry(out) == IF out = "threw" THEN isLoggingIn ELSE FALSE

\* login's finally block, reached from every return and from the catch
\* block: setIsLoggingIn(false).  out is signInWithPassword's outcome.
loginFinally(out) == FALSE

\* login with a rejection path that also resets the store.
loginRejected_clears(out) == [session |-> NoSession, user |-> NoProfile, ret |-> "false"]

\* What login does when signInWithPassword did not hand back a session.
loginRejected(out) == [session |-> session, user |-> user, ret |-> "false"]

\* signInWithPassword has resolved.  On success the auth client has saved the
\* new session and called the subscriber with SIGNED_IN.
LoginSignIn ==
  /\ pc["login"] = "signIn"
  /\ \E out \in SignInOutcomes(args["login"]) :
       IF out = "ok"
       THEN /\ authSession' = NewSession(args["login"].uid)
            /\ tokCount' = tokCount + 1
            /\ handlers' = handlers \cup {NewSession(args["login"].uid)}
            /\ held' = [held EXCEPT !["login"] = NewSession(args["login"].uid)]
            /\ pc' = [pc EXCEPT !["login"] = "fetch"]
            /\ last' = Step("login", args["login"].uid, out, "pending")
            /\ UNCHANGED <<user, session, isLoggingIn, args>>
       ELSE /\ session' = loginRejected(out).session
            /\ user' = loginRejected(out).user
            /\ isLoggingIn' = loginFinally(out)
            /\ pc' = [pc EXCEPT !["login"] = "idle"]
            /\ args' = [args EXCEPT !["login"] = NoArgs]
            /\ last' = Step("login", args["login"].uid, out, loginRejected(out).ret)
            /\ UNCHANGED <<authSession, tokCount, handlers, held>>
  /\ UNCHANGED <<firstRun, profiles, localSigningUp>>
  /\ UNCHANGED screens
  /\ UNCHANGED <<isLoading, isSigningUp, authUsers, employees>>

\* login that stores its session only while the auth client still holds it.
loginStore_dropsStale(userProfile, dataSession) ==
  IF userProfile = NoProfile
  THEN [session |-> IF authSession = dataSession THEN dataSession ELSE session,
        user |-> user, ret |-> "true", signOut |-> FALSE]
  ELSE IF ~userProfile.is_active
  THEN [session |-> session, user |-> user, ret |-> "false", signOut |-> TRUE]
  ELSE [session |-> IF authSession = dataSession THEN dataSession ELSE session,
        user |-> IF authSession = dataSession THEN userProfile ELSE user,
        ret |-> "true", signOut |-> FALSE]

\* login without the setUser(userProfile) of its last branch.
loginStore_dropProfile(userProfile, dataSession) ==
  IF userProfile = NoProfile
  THEN [session |-> dataSession, user |-> user, ret |-> "true", signOut |-> FALSE]
  ELSE IF ~userProfile.is_active
  THEN [session |-> session, user |-> user, ret |-> "false", signOut |-> TRUE]
  ELSE [session |-> dataSession, user |-> user, ret |-> "true", signOut |-> FALSE]

\* login that fails when no profile comes back.
loginStore_failsWithoutProfile(userProfile, dataSession) ==
  IF userProfile = NoProfile
  THEN [session |-> session, user |-> user, ret |-> "false", signOut |-> FALSE]
  ELSE IF ~userProfile.is_active
  THEN [session |-> session, user |-> user, ret |-> "false", signOut |-> TRUE]
  ELSE [session |-> dataSession, user |-> userProfile, ret |-> "true", signOut |-> FALSE]

\* What login does with the result of fetchUserProfile: the stored session
\* and profile, the return value, and whether it calls signOut.
loginStore(userProfile, dataSession) ==
  IF userProfile = NoProfile
  THEN [session |-> dataSession, user |-> user, ret |-> "true", signOut |-> FALSE]
  ELSE IF ~userProfile.is_active
  THEN [session |-> session, user |-> user, ret |-> "false", signOut |-> TRUE]
  ELSE [session |-> dataSession, user |-> userProfile, ret |-> "true", signOut |-> FALSE]

\* fetchUserProfile has resolved.  Where login calls signOut and it succeeds,
\* the subscriber is called with SIGNED_OUT.
LoginFetch ==
  /\ pc["login"] = "fetch"
  /\ \E respOk \in BOOLEAN, soOk \in BOOLEAN :
       LET userProfile == fetchUserProfile(held["login"].uid, respOk)
           st == loginStore(userProfile, held["login"])
           so == st.signOut /\ soOk
       IN /\ session' = IF so THEN onSignedOut.session ELSE st.session
          /\ user' = IF so THEN onSignedOut.user ELSE st.user
          /\ authSession' = IF so THEN NoSession ELSE authSession
          /\ last' = Step("login", held["login"].uid,
                          IF respOk THEN "rows" ELSE "lookupError", st.ret)
  /\ isLoggingIn' = loginFinally("ok")
  /\ pc' = [pc EXCEPT !["login"] = "idle"]
  /\ held' = [held EXCEPT !["login"] = NoSession]
  /\ args' = [args EXCEPT !["login"] = NoArgs]
  /\ UNCHANGED <<firstRun, profiles, localSigningUp>>
  /\ UNCHANGED screens
  /\ UNCHANGED <<isLoading, isSigningUp, authUsers, employees, tokCount, handlers>>

\* ---------------------------------------------------------------- logout
\* logout without its call of signOut.
logoutSignOut_skipped(out) == authSession

\* The session the auth client holds after logout's call of signOut: a
\* sign-out that fails (error returned or thrown) invalidates nothing.
logoutSignOut(out) == IF out = "ok" THEN NoSession ELSE authSession

\* The two setters after the await of signOut; s and u are the stored session
\* and profile when the await resumes.
logoutStore(out, s, u) ==
  IF out = "threw"
  THEN [session |-> s, user |-> u]
  ELSE [session |-> NoSession, user |-> NoProfile]

\* logout: signOut has resolved ("ok"), returned an error or thrown.  A
\* sign-out that invalidates the session calls the subscriber with SIGNED_OUT.
Logout ==
  /\ ~isLoading
  /\ \E out \in {"ok", "error", "threw"} :
       LET signedOut == authSession.uid # "none" /\ logoutSignOut(out) = NoSession
           s == IF signedOut THEN onSignedOut.session ELSE session
           u == IF signedOut THEN onSignedOut.user ELSE user
       IN /\ authSession' = logoutSignOut(out)
          /\ session' = logoutStore(out, s, u).session
          /\ user' = logoutStore(out, s, u).user
          /\ last' = Step("logout", authSession.uid, out, "void")
  /\ UNCHANGED <<firstRun, profiles, localSigningUp>>
  /\ UNCHANGED screens
  /\ UNCHANGED <<isLoading, isLoggingIn, isSigningUp, authUsers, employees,
                 tokCount, handlers, pc, held, args>>

\* ------------------------------------------------------------ environment
\* autoRefreshToken: the auth client rotates the credential bundle and calls
\* the subscriber with TOKEN_REFRESHED.
TokenRefresh ==
  /\ authSession.uid # "none"
  /\ tokCount < MaxTok
  /\ authSession' = NewSession(authSession.uid)
  /\ tokCount' = tokCount + 1
  /\ session' = onTokenRefreshed(NewSession(authSession.uid)).session
  /\ user' = onTokenRefreshed(NewSession(authSession.uid)).user
  /\ last' = Step("tokenRefreshed", authSession.uid, "ok", "void")
  /\ UNCHANGED <<firstRun, profiles, localSigningUp>>
  /\ UNCHANGED screens
  /\ UNCHANGED <<isLoading, isLoggingIn, isSigningUp, authUsers,
                 employees, handlers, pc, held, args>>

\* autoRefreshToken: the refresh is refused (the session has expired or was
\* revoked); the auth client drops its session and calls the subscriber with
\* SIGNED_OUT.
SessionExpired ==
  /\ authSession.uid # "none"
  /\ authSession' = NoSession
  /\ session' = onSignedOut.session
  /\ user' = onSignedOut.user
  /\ last' = Step("signedOut", authSession.uid, "ok", "void")
  /\ UNCHANGED <<firstRun, profiles, localSigningUp>>
  /\ UNCHANGED screens
  /\ UNCHANGED <<isLoading, isLoggingIn, isSigningUp, authUsers, employees,
                 tokCount, handlers, pc, held, args>>

\* The row after the administrator's update { is_active: !currentStatus }.
toggled(r) == [r EXCEPT !.is_active = ~r.is_active]

\* handleToggleActiveStatus on the users-management screen.
ToggleActive ==
  /\ \E r \in employees :
       /\ employees' = (employees \ {r}) \cup {toggled(r)}
       /\ last' = Step("toggle", r.user_id, "ok", "none")
  /\ UNCHANGED <<firstRun, profiles, localSigningUp>>
  /\ UNCHANGED screens
  /\ UNCHANGED <<user, session, isLoading, isLoggingIn, isSigningUp, authSession,
                 authUsers, tokCount, handlers, pc, held, args>>

\* ----------------------------------------------------------- refreshUser
\* refreshUser whose else branch only drops the session.
refreshNoSession_keepsProfile == [session |-> NoSession, user |-> user]

\* The else branch of refreshUser: getSession handed back no session.
refreshNoSession == [session |-> NoSession, user |-> NoProfile]

\* getSession has resolved (or thrown, which refreshUser re-throws).
RefreshGetSession ==
  /\ ~isLoading
  /\ CanStart("refresh")
  /\ \E out \in {"ok", "threw"} :
       IF out = "threw"
       THEN /\ last' = Step("refresh", "none", out, "threw")
            /\ UNCHANGED <<user, session, pc, held>>
       ELSE IF authSession.uid # "none"
       THEN /\ pc' = [pc EXCEPT !["refresh"] = "query"]
            /\ held' = [held EXCEPT !["refresh"] = authSession]
            /\ last' = Step("refresh", authSession.uid, out, "pending")
            /\ UNCHANGED <<user, session>>
       ELSE /\ user' = refreshNoSession.user
            /\ session' = refreshNoSession.session
            /\ last' = Step("refresh", "none", out, "void")
            /\ UNCHANGED <<pc, held>>
  /\ UNCHANGED <<firstRun, profiles, localSigningUp>>
  /\ UNCHANGED screens
  /\ UNCHANGED <<isLoading, isLoggingIn, isSigningUp, authSession, authUsers,
                 employees, tokCount, handlers, args>>

\* The employees query of refreshUser: .eq('user_id', id).single(), with no
\* filter on is_active.
refreshQuery(userId, respOk) ==
  IF respOk THEN Single(RowsOf(userId, FALSE)) ELSE NoProfile

\* refreshUser that stores the session before looking at the query's error.
refreshStore_storesOnError(employeeData, currentSession) ==
  IF employeeData = NoProfile
  THEN [session |-> currentSession, user |-> NoProfile, ret |-> "threw"]
  ELSE [session |-> currentSession, user |-> employeeData, ret |-> "void"]

\* What refreshUser does with the result of its query: an error (no single
\* row, or a failed request) is thrown before either setter runs.
refreshStore(employeeData, currentSession) ==
  IF employeeData = NoProfile
  THEN [session |-> session, user |-> user, ret |-> "threw"]
  ELSE [session |-> currentSession, user |-> employeeData, ret |-> "void"]

RefreshQuery ==
  /\ pc["refresh"] = "query"
  /\ \E respOk \in BOOLEAN :
       LET employeeData == refreshQuery(held["refresh"].uid, respOk)
           st == refreshStore(employeeData, held["refresh"])
       IN /\ session' = st.session
          /\ user' = st.user
          /\ last' = Step("refresh", held["refresh"].uid,
                          IF respOk THEN "rows" ELSE "lookupError", st.ret)
  /\ pc' = [pc EXCEPT !["refresh"] = "idle"]
  /\ held' = [held EXCEPT !["refresh"] = NoSession]
  /\ UNCHANGED <<firstRun, profiles, localSigningUp>>
  /\ UNCHANGED screens
  /\ UNCHANGED <<isLoading, isLoggingIn, isSigningUp, authSession, authUsers,
                 employees, tokCount, handlers, args>>

\* ---------------------------------------------------------------- signup
\* Entry of signup up to the await of signUp.
SignupCall(uid) ==
  /\ ~isLoading
  /\ CanStart("signup")
  /\ isSigningUp' = TRUE
  /\ pc' = [pc EXCEPT !["signup"] = "signUp"]
  /\ args' = [args EXCEPT !["signup"] = [uid |-> uid, emp |-> "none", dept |-> "none", valid |-> TRUE]]
  /\ last' = Step("signup", uid, "none", "pending")
  /\ UNCHANGED <<firstRun, profiles, localSigningUp>>
  /\ UNCHANGED screens
  /\ UNCHANGED <<user, session, isLoading, isLoggingIn, authSession, authUsers,
                 employees, tokCount, handlers, held>>

\* Outcomes of signUp: an account that exists already is rejected.
SignUpOutcomes(a) ==
  IF a.uid \in authUsers THEN {"error", "threw"} ELSE {"ok", "error", "threw", "nodata"}

\* signUp has resolved.
SignupDone ==
  /\ pc["signup"] = "signUp"
  /\ \E out \in SignUpOutcomes(args["signup"]) :
       /\ authUsers' = IF out = "ok" THEN authUsers \cup {args["signup"].uid} ELSE authUsers
       /\ last' = Step("signup", args["signup"].uid, out,
                       IF out = "ok" THEN "true" ELSE "false")
  /\ isSigningUp' = FALSE
  /\ pc' = [pc EXCEPT !["signup"] = "idle"]
  /\ args' = [args EXCEPT !["signup"] = NoArgs]
  /\ UNCHANGED <<firstRun, profiles, localSigningUp>>
  /\ UNCHANGED screens
  /\ UNCHANGED <<user, session, isLoading, isLoggingIn, authSession, employees,
                 tokCount, handlers, held>>

\* ------------------------------------- handleSignup of the login screen
\* Entry of handleSignup up to the await of signUp.
HandleSignupCall(uid) ==
  /\ ~isLoading
  /\ CanStart("handleSignup")
  /\ localSigningUp' = TRUE
  /\ pc' = [pc EXCEPT !["handleSignup"] = "signUp"]
  /\ args' = [args EXCEPT !["handleSignup"] =
                [uid |-> uid, emp |-> "none", dept |-> "none", valid |-> TRUE]]
  /\ last' = Step("handleSignup", uid, "none", "pending")
  /\ UNCHANGED <<firstRun, profiles>>
  /\ UNCHANGED screens
  /\ UNCHANGED <<user, session, isLoading, isLoggingIn, isSigningUp, authSession,
                 authUsers, employees, tokCount, handlers, held>>

\* signUp has resolved: with a user handed back, handleSignup goes on to the
\* insert into profiles.
HandleSignupSignUp ==
  /\ pc["handleSignup"] = "signUp"
  /\ \E out \in SignUpOutcomes(args["handleSignup"]) :
       IF out = "ok"
       THEN /\ authUsers' = authUsers \cup {args["handleSignup"].uid}
            /\ pc' = [pc EXCEPT !["handleSignup"] = "insert"]
            /\ last' = Step("handleSignup", args["handleSignup"].uid, out, "pending")
            /\ UNCHANGED <<localSigningUp, args>>
       ELSE /\ localSigningUp' = FALSE
            /\ pc' = [pc EXCEPT !["handleSignup"] = "idle"]
            /\ args' = [args EXCEPT !["handleSignup"] = NoArgs]
            /\ last' = Step("handleSignup", args["handleSignup"].uid, out, "false")
            /\ UNCHANGED authUsers
  /\ UNCHANGED <<firstRun, profiles>>
  /\ UNCHANGED screens
  /\ UNCHANGED <<user, session, isLoading, isLoggingIn, isSigningUp, authSession,
                 employees, tokCount, handlers, held>>

\* The profiles table after handleSignup's insert of a row with
\* id: authData.user.id.
profilesInsert(id, out) == IF out = "ok" THEN profiles \cup {id} ELSE profiles

\* The insert into profiles has resolved ("ok"), returned an error (which is
\* logged: handleSignup still returns true) or thrown (the catch returns
\* false).
HandleSignupInsert ==
  /\ pc["handleSignup"] = "insert"
  /\ \E out \in {"ok", "error", "threw"} :
       /\ profiles' = profilesInsert(args["handleSignup"].uid, out)
       /\ last' = Step("handleSignup", args["handleSignup"].uid,
                       IF out = "ok" THEN "inserted" ELSE IF out = "error" THEN "insertError"
                       ELSE "insertThrew",
                       IF out = "threw" THEN "false" ELSE "true")
  /\ localSigningUp' = FALSE
  /\ pc' = [pc EXCEPT !["handleSignup"] = "idle"]
  /\ args' = [args EXCEPT !["handleSignup"] = NoArgs]
  /\ UNCHANGED firstRun
  /\ UNCHANGED screens
  /\ UNCHANGED <<user, session, isLoading, isLoggingIn, isSigningUp, authSession,
                 authUsers, employees, tokCount, handlers, held>>

\* ----------------------------------------------- completeEmployeeProfile
\* completeEmployeeProfile without the check of the departments query's result.
departmentFound_anyName(departmentName, respOk) == TRUE

\* The departments query: .eq('name', departmentName).single().
departmentFound(departmentName, respOk) == respOk /\ departmentName \in DeptNames

\* The employee number handleCompleteProfile passes: the stored profile's
\* number, or a generated one.
EmployeeNumbers == IF user # NoProfile THEN {user.employee_number} ELSE EmpNums

\* handleCompleteProfile calls completeEmployeeProfile(session.user.id, ...);
\* the departments query has resolved.
CompleteDept(emp, dept) ==
  /\ ~isLoading
  /\ session.uid # "none"
  /\ CanStart("complete")
  /\ emp \in EmployeeNumbers
  /\ \E respOk \in BOOLEAN :
       IF departmentFound(dept, respOk)
       THEN /\ pc' = [pc EXCEPT !["complete"] = "insert"]
            /\ args' = [args EXCEPT !["complete"] =
                          [uid |-> session.uid, emp |-> emp, dept |-> dept, valid |-> TRUE]]
            /\ last' = Step("complete", session.uid, "dept", "pending")
       ELSE /\ last' = Step("complete", session.uid,
                            IF dept \in DeptNames THEN "deptError" ELSE "nodept", "false")
            /\ UNCHANGED <<pc, args>>
  /\ UNCHANGED <<firstRun, profiles, localSigningUp>>
  /\ UNCHANGED screens
  /\ UNCHANGED <<user, session, isLoading, isLoggingIn, isSigningUp, authSession,
                 authUsers, employees, tokCount, handlers, held>>

\* The row the insert adds.
newEmployee(a) ==
  [id |-> Cardinality(employees) + 1, user_id |-> a.uid,
   employee_number |-> a.emp, is_active |-> TRUE]

\* employee_number text UNIQUE NOT NULL
insertAllowed(a) == \A r \in employees : r.employee_number # a.emp

\* The insert into employees has resolved.
CompleteInsert ==
  /\ pc["complete"] = "insert"
  /\ \E respOk \in BOOLEAN :
       IF respOk /\ insertAllowed(args["complete"])
       THEN /\ employees' = employees \cup {newEmployee(args["complete"])}
            /\ pc' = [pc EXCEPT !["complete"] = "fetch"]
            /\ last' = Step("complete", args["complete"].uid, "inserted", "pending")
            /\ UNCHANGED args
       ELSE /\ pc' = [pc EXCEPT !["complete"] = "idle"]
            /\ args' = [args EXCEPT !["complete"] = NoArgs]
            /\ last' = Step("complete", args["complete"].uid, "insertError", "false")
            /\ UNCHANGED employees
  /\ UNCHANGED <<firstRun, profiles, localSigningUp>>
  /\ UNCHANGED screens
  /\ UNCHANGED <<user, session, isLoading, isLoggingIn, isSigningUp, authSession,
                 authUsers, tokCount, handlers, held>>

\* What completeEmployeeProfile stores after reloading the profile.
completeStore(userProfile) == IF userProfile # NoProfile THEN userProfile ELSE user

\* fetchUserProfile(userId) has resolved.
CompleteFetch ==
  /\ pc["complete"] = "fetch"
  /\ \E respOk \in BOOLEAN :
       /\ user' = completeStore(fetchUserProfile(args["complete"].uid, respOk))
       /\ last' = Step("complete", args["complete"].uid,
                       IF respOk THEN "rows" ELSE "lookupError", "true")
  /\ pc' = [pc EXCEPT !["complete"] = "idle"]
  /\ args' = [args EXCEPT !["complete"] = NoArgs]
  /\ UNCHANGED <<firstRun, profiles, localSigningUp>>
  /\ UNCHANGED screens
  /\ UNCHANGED <<session, isLoading, isLoggingIn, isSigningUp, authSession,
                 authUsers, employees, tokCount, handlers, held>>

\* ------------------------------------------------ the login screen's form
\* The store's variables a step of the form leaves alone.
formFrame == <<user, session, isLoading, isSigningUp, authSession, authUsers,
               employees, tokCount, handlers, pc, held, args, last, firstRun, profiles,
               forgot, link, deptLoad>>

\* validateField(name, value): a copy of the errors of the current render with
\* the message of the one field replaced.
validateField(name, value) ==
  IF name = "email"
  THEN [authForm.errors EXCEPT !.email =
          IF value = <<>> THEN "Email is required"
          ELSE IF ~emailRegex(value) THEN "Email is invalid" ELSE ""]
  ELSE IF name = "password"
  THEN IF value = ""
       THEN [authForm.errors EXCEPT !.password = "Password is required"]
       ELSE IF authForm.authMode = "signup" /\ authForm.confirmPassword # ""
       THEN [authForm.errors EXCEPT !.password = "",
               !.confirmPassword = IF value # authForm.confirmPassword
                                   THEN "Passwords do not match" ELSE ""]
       ELSE [authForm.errors EXCEPT !.password = ""]
  ELSE IF authForm.authMode = "signup"
  THEN [authForm.errors EXCEPT !.confirmPassword =
          IF value = "" THEN "Please confirm your password"
          ELSE IF value # authForm.password THEN "Passwords do not match" ELSE ""]
  ELSE authForm.errors

\* onChangeText of a field: the text is stored, and checked when the field
\* has been touched.
FormChange(name, text) ==
  /\ ~isLoading
  /\ authForm[name] # text
  /\ authForm' = [authForm EXCEPT ![name] = text,
                    !.errors = IF authForm.touched[name]
                               THEN validateField(name, text) ELSE authForm.errors]
  /\ UNCHANGED <<formFrame, isLoggingIn, localSigningUp, sent>>

\* handleBlur(field)
FormBlur(name) ==
  /\ ~isLoading
  /\ authForm' = [authForm EXCEPT !.touched[name] = TRUE,
                    !.errors = validateField(name, authForm[name])]
  /\ UNCHANGED <<formFrame, isLoggingIn, localSigningUp, sent>>

\* toggleAuthMode: the other mode, with resetForm.
ToggleAuthMode ==
  /\ ~isLoading
  /\ authForm' = EmptyForm(IF authForm.authMode = "login" THEN "signup" ELSE "login")
  /\ UNCHANGED <<formFrame, isLoggingIn, localSigningUp, sent>>

\* The fields handleAuth looks at in the current mode, and the last of them.
relevantFields ==
  IF authForm.authMode = "login" THEN {"email", "password"}
  ELSE {"email", "password", "confirmPassword"}

lastField == IF authForm.authMode = "login" THEN "password" ELSE "confirmPassword"

\* isSubmitDisabled()
isSubmitDisabled ==
  \/ isLoggingIn \/ localSigningUp
  \/ authForm.email = <<>>
  \/ \E f \in relevantFields \ {"email"} : authForm[f] = ""
  \/ \E f \in relevantFields : authForm.errors[f] # ""

\* What handleAuth reads from the render it was created in: hasErrors from
\* the errors state, allFieldsFilled from formData.
hasErrors == \E f \in relevantFields : authForm.errors[f] # ""

allFieldsFilled ==
  authForm.email # <<>> /\ \A f \in relevantFields \ {"email"} : authForm[f] # ""

\* The credential request handleAuth ends in: login sends
\* email.toLowerCase().trim(), handleSignup sends the text as typed.
authRequest ==
  IF authForm.authMode = "login"
  THEN [api |-> "signInWithPassword", input |-> authForm.email,
        email |-> trim(toLowerCase(authForm.email))]
  ELSE [api |-> "signUp", input |-> authForm.email, email |-> authForm.email]

\* handleAuth, from the press of the submit button to the await of login or
\* handleSignup.  Each validateField call sets a copy of the same stale
\* errors, so the last call's copy is the one that stays.
HandleAuth ==
  /\ ~isLoading
  /\ ~isSubmitDisabled
  /\ authForm' = [authForm EXCEPT
                    !.touched = [f \in DOMAIN authForm.touched |->
                                   authForm.touched[f] \/ f \in relevantFields],
                    !.errors = validateField(lastField, authForm[lastField])]
  /\ IF hasErrors \/ ~allFieldsFilled
     THEN UNCHANGED <<isLoggingIn, localSigningUp, sent>>
     ELSE /\ sent' = authRequest
          /\ isLoggingIn' = (authForm.authMode = "login")
          /\ localSigningUp' = (authForm.authMode = "signup")
  /\ UNCHANGED formFrame

\* login or handleSignup has returned to handleAuth: resetForm on success.
HandleAuthReturn ==
  /\ isLoggingIn \/ localSigningUp
  /\ \E success \in BOOLEAN :
       authForm' = IF success THEN EmptyForm(authForm.authMode) ELSE authForm
  /\ isLoggingIn' = FALSE
  /\ localSigningUp' = FALSE
  /\ UNCHANGED <<formFrame, sent>>

\* RootLayoutNav's effect without the test of isLoading.
rootRedirect_ignoresLoading(s, u, loading) ==
  IF s # NoSession /\ u = NoProfile THEN "/(auth)/complete-profile"
  ELSE IF s # NoSession /\ u # NoProfile THEN "/(tabs)/analytics"
  ELSE IF s = NoSession THEN "/(auth)/login"
  ELSE "none"

\* RootLayoutNav's effect on [session, user, isLoading]: the route it
\* replaces the current one with, "none" when it calls no router.replace.
rootRedirect(s, u, loading) ==
  IF ~loading
  THEN IF s # NoSession /\ u = NoProfile THEN "/(auth)/complete-profile"
       ELSE IF s # NoSession /\ u # NoProfile THEN "/(tabs)/analytics"
       ELSE IF s = NoSession THEN "/(auth)/login"
       ELSE "none"
  ELSE "none"

\* What the forgot-password screen leaves alone.
forgotFrame == <<user, session, isLoading, isLoggingIn, isSigningUp, authSession,
                 authUsers, employees, tokCount, handlers, pc, held, args, last,
                 firstRun, profiles, localSigningUp, authForm, link, deptLoad>>

\* onChangeText={setEmail}; the input is shown on the form only, and is
\* editable while no request is running.
ForgotChange(text) ==
  /\ ~isLoading
  /\ ~forgot.emailSent /\ ~forgot.isLoading
  /\ forgot.email # text
  /\ forgot' = [forgot EXCEPT !.email = text]
  /\ UNCHANGED <<forgotFrame, sent>>

\* handleResetPassword up to its await, from Send Reset Link (disabled while
\* the email is empty or a request runs) or from Resend Email.
HandleResetPassword ==
  /\ ~isLoading
  /\ ~forgot.isLoading
  /\ forgot.emailSent \/ forgot.email # <<>>
  /\ IF forgot.email = <<>>
     THEN /\ forgot' = [forgot EXCEPT !.alert = "Please enter your email address"]
          /\ UNCHANGED sent
     ELSE IF ~emailRegex(forgot.email)
     THEN /\ forgot' = [forgot EXCEPT !.alert = "Please enter a valid email address"]
          /\ UNCHANGED sent
     ELSE /\ forgot' = [forgot EXCEPT !.isLoading = TRUE, !.pc = "request",
                                      !.alert = "none"]
          /\ sent' = [api |-> "resetPasswordForEmail", input |-> forgot.email,
                      email |-> forgot.email]
  /\ UNCHANGED forgotFrame

\* The screen after resetPasswordForEmail answered: a returned error is only
\* logged and setEmailSent(true) follows; a throw goes to the catch block.
\* finally: setIsLoading(false).
resetAnswered(out) ==
  [emailSent |-> IF out = "threw" THEN forgot.emailSent ELSE TRUE,
   isLoading |-> FALSE]

\* resetPasswordForEmail has resolved or rejected.
ResetPasswordAnswered ==
  /\ forgot.pc = "request"
  /\ \E out \in {"ok", "error", "threw"} :
       forgot' = [forgot EXCEPT !.emailSent = resetAnswered(out).emailSent,
                                !.isLoading = resetAnswered(out).isLoading,
                                !.pc = "idle", !.out = out]
  /\ UNCHANGED <<forgotFrame, sent>>

\* What complete-profile's department loading leaves alone.
deptFrame == <<user, session, isLoading, isLoggingIn, isSigningUp, authSession,
               authUsers, employees, tokCount, handlers, pc, held, args, last,
               firstRun, profiles, localSigningUp, authForm, sent, forgot, link>>

MaxRetries == 3

\* The retry effect without its upper limit.
retryEffect_noLimit(departments, retryCount) == departments = {} /\ retryCount > 0

\* The retry effect's condition: whether it leaves a setTimeout of
\* handleLoadDepartments pending.
retryEffect(departments, retryCount) ==
  departments = {} /\ retryCount < MaxRetries /\ retryCount > 0

\* The pending timeout after a render: the effect runs again (its cleanup
\* clears the old timeout) when departments.length or retryCount changed.
timerAfter(d, departments, retryCount) ==
  IF (departments = {}) # (d.departments = {}) \/ retryCount # d.retryCount
  THEN retryEffect(departments, retryCount)
  ELSE d.timer

\* handleLoadDepartments up to its await of loadDepartments, called from the
\* render d: its closure holds d's departments.
startLoad(d) ==
  [d EXCEPT !.isLoadingDepartments = TRUE,
            !.loads = IF d.departments = {}
                      THEN [@ EXCEPT !.empty = @ + 1] ELSE [@ EXCEPT !.full = @ + 1],
            !.attempts = @ + 1]

\* complete-profile mounts, with the departments initializeAuth's
\* loadDepartments left in the provider; the mount effect calls
\* handleLoadDepartments.
DeptMount ==
  /\ ~isLoading
  /\ ~deptLoad.mounted
  /\ \E departments \in {{}, DeptNames} :
       deptLoad' = startLoad([deptLoad EXCEPT !.mounted = TRUE,
                                              !.departments = departments])
  /\ UNCHANGED deptFrame

\* loadDepartments has resolved (it swallows its errors): rows, an empty
\* list, or nothing stored.  finally: setIsLoadingDepartments(false), and
\* setRetryCount(prev => prev + 1) when the closure's departments is empty.
DeptLoaded ==
  /\ \E closure \in {"empty", "full"}, out \in {"rows", "none", "error"} :
       /\ deptLoad.loads[closure] > 0
       /\ LET departments == IF out = "rows" THEN DeptNames
                             ELSE IF out = "none" THEN {} ELSE deptLoad.departments
              retryCount == IF closure = "empty" THEN deptLoad.retryCount + 1
                            ELSE deptLoad.retryCount
          IN deptLoad' = [deptLoad EXCEPT
                            !.departments = departments,
                            !.retryCount = retryCount,
                            !.isLoadingDepartments = FALSE,
                            !.loads[closure] = @ - 1,
                            !.timer = timerAfter(deptLoad, departments, retryCount)]
  /\ UNCHANGED deptFrame

\* The retry timeout fires: handleLoadDepartments.
DeptRetry ==
  /\ deptLoad.timer
  /\ deptLoad' = startLoad([deptLoad EXCEPT !.timer = FALSE])
  /\ UNCHANGED deptFrame

\* Try Again on the 'Unable to Load Departments' screen (disabled while
\* isLoadingDepartments): setRetryCount(0); handleLoadDepartments().
DeptTryAgain ==
  /\ deptLoad.mounted
  /\ deptLoad.departments = {} /\ deptLoad.retryCount >= MaxRetries
  /\ ~deptLoad.isLoadingDepartments
  /\ deptLoad' = startLoad([deptLoad EXCEPT
                              !.retryCount = 0, !.attempts = 0,
                              !.timer = timerAfter(deptLoad, deptLoad.departments, 0)])
  /\ UNCHANGED deptFrame

\* What the deep-link handlers leave alone.
linkFrame == <<user, session, isLoading, isLoggingIn, isSigningUp, authUsers,
               employees, pc, held, args, last, firstRun, profiles,
               localSigningUp, authForm, sent, forgot, deptLoad>>

LinkTypes == {"recovery", "magiclink"}

\* auth-callback accepting a link of any type.
callbackAccepts_anyType(l) == ~l.error /\ l.access_token /\ l.refresh_token

\* auth-callback's checks before setSession: no error parameter, type
\* 'recovery', both tokens.
callbackAccepts(l) ==
  ~l.error /\ l.type = "recovery" /\ l.access_token /\ l.refresh_token

\* reset-password-handler's test before setSession.
hashAccepts(l) == l.type = "recovery" /\ l.access_token /\ l.refresh_token

\* setStatus('success') with its setTimeout(router.replace('/reset-password')).
linkSuccess(l) ==
  [l EXCEPT !.status = "success", !.timer = "/reset-password", !.pc = "timer"]

\* The catch block: setStatus('error') and the setTimeout of the redirect,
\* to forgot-password from auth-callback, to login from reset-password-handler.
linkError(l) ==
  [l EXCEPT !.status = "error", !.pc = "timer",
     !.timer = IF l.handler = "auth-callback" THEN "/(auth)/forgot-password"
               ELSE "/(auth)/login"]

\* A deep link opens auth-callback: the effect runs handleResetPassword up to
\* the await of setSession, or into the catch block.
OpenAuthCallback(type, access, refresh, err) ==
  /\ ~isLoading
  /\ link.handler = "none"
  /\ LET l == [link EXCEPT !.handler = "auth-callback", !.type = type,
                 !.access_token = access, !.refresh_token = refresh, !.error = err]
     IN link' = IF callbackAccepts(l) THEN [l EXCEPT !.pc = "setSession"]
                ELSE linkError(l)
  /\ UNCHANGED <<linkFrame, authSession, tokCount, handlers>>

\* A deep link opens reset-password-handler: up to the await of getSession.
OpenResetHandler(type, access, refresh, err) ==
  /\ ~isLoading
  /\ link.handler = "none"
  /\ link' = [link EXCEPT !.handler = "reset-password-handler", !.type = type,
                !.access_token = access, !.refresh_token = refresh, !.error = err,
                !.pc = "getSession"]
  /\ UNCHANGED <<linkFrame, authSession, tokCount, handlers>>

\* reset-password-handler: getSession has resolved or rejected.
LinkGetSession ==
  /\ link.pc = "getSession"
  /\ \E out \in {"ok", "threw"} :
       link' = IF out = "threw" THEN linkError(link)
               ELSE IF authSession.uid # "none" THEN linkSuccess(link)
               ELSE IF hashAccepts(link) THEN [link EXCEPT !.pc = "setSession"]
               ELSE linkError(link)
  /\ UNCHANGED <<linkFrame, authSession, tokCount, handlers>>

\* setSession has resolved: with a session of the link's user ("ok", the auth
\* client saves it and calls the subscriber with SIGNED_IN), without session
\* and without error ("nodata"), with an error, or it has thrown.
LinkSetSession ==
  /\ link.pc = "setSession"
  /\ \E out \in {"error", "threw", "nodata"}
                \cup (IF tokCount < MaxTok THEN {"ok"} ELSE {}) :
       IF out = "ok"
       THEN /\ authSession' = NewSession("u1")
            /\ tokCount' = tokCount + 1
            /\ handlers' = handlers \cup {NewSession("u1")}
            /\ link' = linkSuccess(link)
       ELSE /\ link' = linkError(link)
            /\ UNCHANGED <<authSession, tokCount, handlers>>
  /\ UNCHANGED linkFrame

\* The setTimeout callback: router.replace(route).
LinkRedirect ==
  /\ link.pc = "timer"
  /\ link' = [link EXCEPT !.redirect = link.timer, !.timer = "none", !.pc = "done"]
  /\ UNCHANGED <<linkFrame, authSession, tokCount, handlers>>

Next ==
  \/ InitGetSession
  \/ InitFetch
  \/ \E uid \in Users, valid \in BOOLEAN : LoginCall(uid, valid)
  \/ LoginSignIn
  \/ LoginFetch
  \/ Logout
  \/ OnSignedInFetch
  \/ RefreshGetSession
  \/ RefreshQuery
  \/ \E uid \in Users : SignupCall(uid)
  \/ SignupDone
  \/ \E emp \in EmpNums, dept \in DeptInputs : CompleteDept(emp, dept)
  \/ CompleteInsert
  \/ CompleteFetch
  \/ TokenRefresh
  \/ SessionExpired
  \/ ToggleActive

Spec == Init /\ [][Next]_vars

\* initializeAuth run twice in sequence over a backend that does not change:
\* the employees table holds no row, one row or two rows of u1.
InitTwiceTables ==
  InitTables \cup
  { {[id |-> 1, user_id |-> "u1", employee_number |-> "e1", is_active |-> a],
     [id |-> 2, user_id |-> "u1", employee_number |-> "e2", is_active |-> b]}
    : a \in BOOLEAN, b \in BOOLEAN }

InitTwiceNext ==
  \/ InitGetSession
  \/ InitFetch
  \/ InitAgain

InitTwiceSpec == InitWith(InitTwiceTables) /\ [][InitTwiceNext]_vars

\* The two ways to sign up, after the provider has started: the store's
\* signup and the login screen's handleSignup, the one handleAuth calls.  The
\* profiles table is read by nothing else, so the store's other operations
\* run without it.
SignupNext ==
  \/ InitGetSession
  \/ InitFetch
  \/ \E uid \in Users : SignupCall(uid)
  \/ SignupDone
  \/ \E uid \in Users : HandleSignupCall(uid)
  \/ HandleSignupSignUp
  \/ HandleSignupInsert

SignupSpec == Init /\ [][SignupNext]_vars

\* The login screen: typing, leaving a field, switching the mode, submitting.
\* login and handleSignup are taken by what they send and what they return.
AuthFormNext ==
  \/ InitGetSession
  \/ InitFetch
  \/ \E text \in EmailInputs : FormChange("email", text)
  \/ \E f \in {"password", "confirmPassword"}, text \in PasswordInputs : FormChange(f, text)
  \/ \E f \in {"email", "password", "confirmPassword"} : FormBlur(f)
  \/ ToggleAuthMode
  \/ HandleAuth
  \/ HandleAuthReturn

AuthFormSpec == Init /\ [][AuthFormNext]_vars

\* The forgot-password screen under the provider.
ForgotNext ==
  \/ InitGetSession
  \/ InitFetch
  \/ \E text \in EmailInputs : ForgotChange(text)
  \/ HandleResetPassword
  \/ ResetPasswordAnswered

ForgotSpec == Init /\ [][ForgotNext]_vars

\* The password-reset deep-link handlers under the provider.
LinkNext ==
  \/ InitGetSession
  \/ InitFetch
  \/ OnSignedInFetch
  \/ Logout
  \/ \E type \in LinkTypes, access \in BOOLEAN, refresh \in BOOLEAN, err \in BOOLEAN :
       OpenAuthCallback(type, access, refresh, err)
  \/ \E type \in LinkTypes, access \in BOOLEAN, refresh \in BOOLEAN, err \in BOOLEAN :
       OpenResetHandler(type, access, refresh, err)
  \/ LinkGetSession
  \/ LinkSetSession
  \/ LinkRedirect

LinkSpec == Init /\ [][LinkNext]_vars

\* complete-profile's department loading under the provider.
DeptNext ==
  \/ InitGetSession
  \/ InitFetch
  \/ DeptMount
  \/ DeptLoaded
  \/ DeptRetry
  \/ DeptTryAgain

DeptSpec == Init /\ [][DeptNext]_vars

\* Every request login and signup await is answered in the end.
LoginFairSpec ==
  Spec /\ WF_vars(LoginSignIn) /\ WF_vars(LoginFetch) /\ WF_vars(SignupDone)

\* Every request initializeAuth awaits is answered in the end: its promise
\* resolves or rejects.
FairSpec == Spec /\ WF_vars(InitGetSession) /\ WF_vars(InitFetch)

\* ======================================================================
\* Properties
\* ======================================================================
\* Profile rows of a user, whatever their activation flag.
ProfilesOf(uid) == RowsOf(uid, FALSE)

\* The user's only profile record is deactivated.
OnlyDeactivated(uid) ==
  /\ Cardinality(ProfilesOf(uid)) = 1
  /\ RowsOf(uid, TRUE) = {}

\* login has just returned from its profile lookup, which the backend answered.
LoginLookedUp == last.op = "login" /\ last.out = "rows"

\* C1: login with valid credentials for a user whose only profile record is
\* deactivated returns false and retains no session: the backend's current
\* session is empty and the stored session is null.
C1_DeactivatedLoginRejected ==
  (LoginLookedUp /\ OnlyDeactivated(last.uid))
    => (last.ret = "false" /\ authSession = NoSession /\ session = NoSession)

\* C2: the stored profile is null or a profile whose activation flag is true.
C2_StoredProfileActive == user = NoProfile \/ user.is_active

\* C3 as stated: for a user with valid credentials and an active profile,
\* login returns true and the store holds the returned session and that
\* user's profile, whether or not the profile lookup was answered.
C3_ActiveLoginStoresBoth ==
  (last.op = "login" /\ last.out \in {"rows", "lookupError"}
     /\ Cardinality(RowsOf(last.uid, TRUE)) = 1)
    => (last.ret = "true" /\ session.uid = last.uid /\ user \in RowsOf(last.uid, TRUE))

\* C3 amended: when the backend accepts the credentials and the profile
\* lookup is answered with the user's one active profile record, login
\* returns true and the store holds the session signInWithPassword returned
\* and that profile.
C3_ActiveLookupStoresBoth ==
  [][(pc["login"] = "fetch" /\ last'.op = "login" /\ last'.out = "rows"
        /\ Cardinality(RowsOf(held["login"].uid, TRUE)) = 1)
       => (last'.ret = "true" /\ session' = held["login"]
             /\ user' \in RowsOf(held["login"].uid, TRUE))]_vars

C3_Witness ==
  /\ LoginLookedUp
  /\ last.ret = "true"
  /\ session.uid = last.uid
  /\ user \in RowsOf(last.uid, TRUE)

\* C4: login with valid credentials for a user with no profile record, from
\* any store state, returns true and leaves the new session stored and the
\* stored profile empty.
C4_NoProfileLoginEmptiesProfile ==
  (LoginLookedUp /\ ProfilesOf(last.uid) = {})
    => (last.ret = "true" /\ session.uid = last.uid /\ user = NoProfile)

\* C5: when the backend rejects the credential exchange (error, exception,
\* or no session/user), login returns false and neither its entry nor its
\* return changes the stored session or profile.
C5_RejectedLoginLeavesStore ==
  [][/\ (pc["login"] = "idle" /\ pc'["login"] = "signIn")
          => (session' = session /\ user' = user)
     /\ (pc["login"] = "signIn" /\ pc'["login"] = "idle")
          => (last'.op = "login" /\ last'.ret = "false"
                /\ session' = session /\ user' = user)]_vars

C5_Witness ==
  /\ last.op = "login"
  /\ last.out = "nodata"
  /\ last.ret = "false"
  /\ session # NoSession
  /\ user # NoProfile

C7_LogoutClearsStore ==
  last.op = "logout" => (session = NoSession /\ user = NoProfile)

\* C8: with a backend session for a user who has no profile record,
\* initialize, login, the signed-in handler and refresh complete without
\* reporting failure and leave the session stored with an empty profile.
C8_NoProfileIsNoError ==
  (last.op \in {"init", "login", "signedIn", "refresh"} /\ last.out = "rows"
     /\ ProfilesOf(last.uid) = {})
    => (last.ret \notin {"false", "threw"} /\ session.uid = last.uid
          /\ user = NoProfile)

\* C9: completeProfile with a department name that matches no departments
\* row returns false, leaves the employees table and the stored profile as
\* they were, and never goes on to the insert.
C9_UnknownDepartmentFails ==
  [][/\ (last'.op = "complete" /\ last'.out = "nodept")
          => (last'.ret = "false" /\ employees' = employees /\ user' = user)
     /\ pc'["complete"] # "idle" => args'["complete"].dept \in DeptNames]_vars

C9_Witness ==
  /\ last.op = "complete"
  /\ last.out = "nodept"
  /\ last.ret = "false"
  /\ pc["complete"] = "idle"

\* C10: whenever completeProfile returns true, the stored profile is the
\* profile of that remote user id.
C10_CompleteStoresProfile ==
  (last.op = "complete" /\ last.ret = "true")
    => (user # NoProfile /\ user.user_id = last.uid)

\* Rows of the employees table that are active for one remote user id.
ActiveProfilesOf(uid) == RowsOf(uid, TRUE)

\* C11: whatever completeEmployeeProfile calls and administrator toggles have
\* happened, the employees table holds at most one active row per remote
\* user id.
C11_OneActiveProfilePerUser ==
  \A uid \in Users : Cardinality(ActiveProfilesOf(uid)) <= 1

\* C12: when refreshUser finds that the backend holds no session, it returns
\* with the stored session and the stored profile both empty, whatever the
\* store held before.
C12_RefreshWithoutSessionClears ==
  (last.op = "refresh" /\ last.out = "ok")
    => (authSession = NoSession /\ session = NoSession /\ user = NoProfile)

C12_Witness ==
  /\ last.op = "refresh" /\ last.out = "ok" /\ last.ret = "void"
  /\ authSession = NoSession /\ session = NoSession /\ user = NoProfile

\* C13: when a backend request of refreshUser fails (getSession throws, the
\* employees query errors or finds no single row), refreshUser throws and
\* that step leaves the stored session and profile as they were.
C13_FailedRefreshRethrows ==
  [][(last'.op = "refresh"
        /\ (last'.out \in {"threw", "lookupError"} \/ last'.ret = "threw"))
       => (last'.ret = "threw" /\ session' = session /\ user' = user)]_vars

C13_Witness ==
  /\ last.op = "refresh" /\ last.out = "lookupError" /\ last.ret = "threw"
  /\ user # NoProfile /\ session # NoSession

\* C14: isLoading is true when the provider is constructed; it becomes false
\* only on the step on which initializeAuth returns, that is after getSession
\* and, where there is a session, the profile lookup have resolved or failed;
\* it does become false on every path, a throwing getSession included; and it
\* never becomes true again.
C14_LoadingFlag ==
  /\ isLoading = TRUE
  /\ [][(isLoading /\ ~isLoading') => (last'.op = "init" /\ pc'["init"] = "idle")]_vars
  /\ [][~isLoading => ~isLoading']_vars
  /\ <>(~isLoading)

C14_Witness ==
  ~isLoading /\ last.op = "init" /\ last.out = "threw" /\ pc["init"] = "idle"

\* The store is as the first run of initializeAuth left it.
SameAsFirstRun ==
  /\ session = firstRun.session
  /\ user = firstRun.user
  /\ isLoading = firstRun.isLoading

C16_LookupErrorIsNoProfile ==
  [][/\ (last'.op = "init" /\ last'.out = "lookupError")
          => (session' = held["init"] /\ session' # NoSession
                /\ user' = NoProfile /\ ~isLoading')
     /\ (last'.op = "login" /\ last'.out = "lookupError")
          => (session' = held["login"] /\ session' # NoSession
                /\ last'.ret = "true")]_vars

C16_Witness ==
  /\ last.op = "login" /\ last.out = "lookupError" /\ last.ret = "true"
  /\ session.uid = last.uid /\ session.tok > 0

\* C17: the TOKEN_REFRESHED callback replaces the stored session by the
\* session the event carries and leaves the stored profile as it was.
C17_TokenRefreshKeepsProfile ==
  [][last'.op = "tokenRefreshed"
       => (session' = authSession' /\ session' # session /\ user' = user)]_vars

C17_Witness ==
  /\ last.op = "tokenRefreshed"
  /\ session = authSession /\ session.tok > 0
  /\ user # NoProfile

\* C18: when the SIGNED_OUT callback has run, the stored session and the
\* stored profile are both empty, whatever the store held before.
C18_SignedOutClearsStore ==
  last.op = "signedOut" => (session = NoSession /\ user = NoProfile)

C18_Witness ==
  /\ last.op = "signedOut" /\ last.uid \in Users
  /\ authSession = NoSession /\ session = NoSession /\ user = NoProfile

\* The SIGNED_IN callback has just returned from a profile lookup the backend
\* answered.
SignedInLookedUp == last.op = "signedIn" /\ last.out = "rows"

\* C19: the SIGNED_IN callback leaves the store as login is specified to: no
\* profile record gives the session stored and an empty profile; one active
\* record gives the session and that profile stored; an only record that is
\* deactivated gives the backend session invalidated and nothing stored.
C19_SignedInMatchesLogin ==
  /\ (SignedInLookedUp /\ ProfilesOf(last.uid) = {})
       => (session.uid = last.uid /\ user = NoProfile)
  /\ (SignedInLookedUp /\ Cardinality(RowsOf(last.uid, TRUE)) = 1)
       => (session.uid = last.uid /\ user \in RowsOf(last.uid, TRUE))
  /\ (SignedInLookedUp /\ OnlyDeactivated(last.uid))
       => (authSession = NoSession /\ session = NoSession /\ user = NoProfile)

\* A sign-up (the store's signup or the login screen's handleSignup) takes a
\* step.
SignupStep ==
  pc'["signup"] # pc["signup"] \/ pc'["handleSignup"] # pc["handleSignup"]

\* C20: no step of a sign-up, successful or not, changes the profile records
\* (the employees table, the profiles table), and a sign-up for which the
\* backend hands back a user returns true.
C20_SignupCreatesNoProfile ==
  [][/\ SignupStep => (employees' = employees /\ profiles' = profiles)
     /\ (last'.op = "signup" /\ last'.out = "ok") => last'.ret = "true"]_vars

\* out is the lowercase, white-space-trimmed form of text: no capital, no
\* blank at either end, and text is out (capitals apart) between blanks.
NormalisedOf(out, text) ==
  /\ \A k \in 1..Len(out) : out[k] # "A"
  /\ out = <<>> \/ (out[1] # " " /\ out[Len(out)] # " ")
  /\ \E i \in 1..(Len(text) + 1) :
       /\ i + Len(out) - 1 <= Len(text)
       /\ \A k \in 1..Len(out) :
            \/ out[k] = text[i + k - 1]
            \/ (out[k] = "a" /\ text[i + k - 1] = "A")
       /\ \A k \in 1..Len(text) : (k < i \/ k >= i + Len(out)) => text[k] = " "

\* C21: the identifier the auth service receives in a credential exchange or
\* a sign-up is the lowercase, white-space-trimmed form of the text passed.
C21_BackendReceivesNormalised ==
  sent.api # "none" => NormalisedOf(sent.email, sent.input)

\* C23: the auth service receives no credential request for an e-mail text
\* that fails the form's validation (empty, or not matching the pattern).
C23_NoRequestForInvalidInput ==
  sent.api # "none" => (sent.input # <<>> /\ emailRegex(sent.input))

\* C22: once resetPasswordForEmail has been answered, the forgot-password
\* screen shows the same state (e-mail sent, no spinner) whether the request
\* succeeded, returned an error or threw.
C22_SameScreenForEveryOutcome ==
  (forgot.out # "none" /\ forgot.pc = "idle") =>
    (forgot.emailSent /\ ~forgot.isLoading)

\* C24: the root navigator redirects nowhere while isLoading is true; with
\* isLoading false it picks one of three routes from the store alone (session
\* without profile: complete-profile; session with profile: the tabs; no
\* session: login), and it picks one only after initializeAuth has finished.
C24_RootRedirect ==
  LET target == rootRedirect(session, user, isLoading) IN
  /\ isLoading => target = "none"
  /\ ~isLoading =>
       /\ target \in {"/(auth)/complete-profile", "/(tabs)/analytics", "/(auth)/login"}
       /\ target = "/(auth)/complete-profile" <=> (session # NoSession /\ user = NoProfile)
       /\ target = "/(tabs)/analytics" <=> (session # NoSession /\ user # NoProfile)
       /\ target = "/(auth)/login" <=> session = NoSession
  /\ target # "none" => pc["init"] = "idle"

C24_Witness ==
  /\ ~isLoading /\ last.op = "init"
  /\ session # NoSession /\ user = NoProfile
  /\ rootRedirect(session, user, isLoading) = "/(auth)/complete-profile"

\* C25: a login that comes back from its profile lookup and returns true
\* stores the session signInWithPassword gave it, whatever the auth client
\* holds by then; a logout completed in between does not stop the write.
C25_StaleLoginStillWrites ==
  [][(pc["login"] = "fetch" /\ last'.op = "login" /\ last'.ret = "true")
       => (session' = held["login"] /\ authSession' = authSession)]_vars

\* login has just returned true, a session is stored, and the auth client
\* holds none.
C25_Witness ==
  /\ last.op = "login" /\ last.ret = "true"
  /\ session # NoSession /\ user # NoProfile
  /\ authSession = NoSession

\* initializeAuth has finished, no store operation is suspended at an await
\* and no SIGNED_IN callback is waiting for its profile lookup.
Quiescent == (\A o \in Ops : pc[o] = "idle") /\ handlers = {}

\* C26: in every quiescent state the stored session is the auth client's
\* current session (both empty, or the same credential bundle).
C26_LocalSessionAgrees == Quiescent => session = authSession

\* C26 as the code has it: in a quiescent state reached by a signed-out or
\* token-refreshed callback, or by a logout whose signOut succeeded, the stored
\* session is the auth client's current session.
C26_AgreesAfterCallbackOrLogout ==
  (Quiescent /\ (\/ last.op \in {"signedOut", "tokenRefreshed"}
                 \/ (last.op = "logout" /\ last.out = "ok")))
    => session = authSession

\* A token refresh has just handed the store a new credential bundle.
C26_Witness ==
  /\ Quiescent /\ last.op = "tokenRefreshed"
  /\ session # NoSession /\ session = authSession /\ session.tok > 0

\* C27: in every quiescent state a stored profile belongs to the stored
\* session's user, and no profile is stored while the session is empty.
C27_ProfileBelongsToSession ==
  (Quiescent /\ user # NoProfile) =>
    (session # NoSession /\ user.user_id = session.uid)

\* C28: isLoggingIn is true exactly while a login is between its entry and
\* its return, and every login leaves it false in the end; the same for
\* isSigningUp and signup.
C28_BusyFlags ==
  /\ [](isLoggingIn = (pc["login"] # "idle"))
  /\ [](isSigningUp = (pc["signup"] # "idle"))
  /\ (isLoggingIn = TRUE) ~> (isLoggingIn = FALSE)
  /\ (isSigningUp = TRUE) ~> (isSigningUp = FALSE)

\* A login whose signInWithPassword threw has returned with the flag reset.
C28_Witness ==
  /\ last.op = "login" /\ last.out = "threw" /\ last.ret = "false"
  /\ ~isLoggingIn /\ pc["login"] = "idle"

\* C29: a deep-link handler leaves 'loading' for 'success' or 'error' and
\* keeps that status; it reaches 'success' (and goes to /reset-password) only
\* when the auth client holds a session, one it held already or one set from
\* a link of type 'recovery' with both tokens; an 'error' redirects elsewhere.
C29_LinkStatus ==
  /\ [][link.status # "loading" => link'.status = link.status]_vars
  /\ [][(link.status = "loading" /\ link'.status = "success") =>
          /\ authSession' # NoSession
          /\ \/ authSession # NoSession /\ link'.handler = "reset-password-handler"
             \/ link'.type = "recovery" /\ link'.access_token /\ link'.refresh_token]_vars
  /\ [](link.pc = "done" => link.status \in {"success", "error"})
  /\ []("/reset-password" \in {link.timer, link.redirect} <=> link.status = "success")
  /\ [](link.status = "error" =>
          \/ link.timer \in {"/(auth)/forgot-password", "/(auth)/login"}
          \/ link.redirect \in {"/(auth)/forgot-password", "/(auth)/login"})

\* auth-callback has set the session of a recovery link and gone on to the
\* reset-password screen.
C29_Witness ==
  /\ link.handler = "auth-callback" /\ link.status = "success"
  /\ link.redirect = "/reset-password" /\ authSession.tok > 0

\* C30: a retry of the department load is pending only while the list is
\* empty and 0 < retryCount < 3; at most three loads are made after the mount
\* or a press of Try Again; with the list empty and retryCount at 3 nothing
\* is pending or running; with departments loaded no retry is pending.
C30_DepartmentReloadTerminates ==
  /\ deptLoad.timer =>
       (deptLoad.departments = {} /\ 0 < deptLoad.retryCount
          /\ deptLoad.retryCount < MaxRetries)
  /\ deptLoad.attempts <= MaxRetries
  /\ deptLoad.retryCount <= MaxRetries
  /\ (deptLoad.departments = {} /\ deptLoad.retryCount >= MaxRetries) =>
       (~deptLoad.timer /\ deptLoad.loads.empty + deptLoad.loads.full = 0)
  /\ deptLoad.departments # {} => ~deptLoad.timer

\* Three loads have failed: the 'Unable to Load Departments' screen.
C30_Witness ==
  /\ deptLoad.mounted /\ deptLoad.departments = {}
  /\ deptLoad.retryCount = MaxRetries /\ deptLoad.attempts = MaxRetries
  /\ ~deptLoad.timer /\ ~deptLoad.isLoadingDepartments
====
